---- MODULE Spec2Model ----
(***************************************************************************)
(* Model of the multi-agent judging pipeline of working_functions.py:      *)
(* run_judgment_llm, create_agent.handle_tool_call, run_agent_threaded,    *)
(* process_single_row_threaded, run_parallel_system_threaded and the       *)
(* __main__ guard.                                                         *)
(*                                                                         *)
(* Python values are tagged records.  A Python str is the sequence of its  *)
(* lexemes: a piece of prose is one lexeme (an f-string has one lexeme per  *)
(* literal part and per substitution), a JSON text is the sequence of its  *)
(* JSON tokens, so that json.dumps and json.loads are real conversions.    *)
(* A mapping with string keys (a row, final_data) is a TLA+ function.      *)
(***************************************************************************)
EXTENDS Integers, Sequences, FiniteSets, TLC

\* ------------------------------------------------------------------ bounds
\* Largest number of rows of an input table.
MaxRows == 2
\* Latency, in clock ticks, of an external call under SpecTimed.
Latency == 2
\* Largest number of criteria beyond the three of agent_configs under
\* SpecPool.
ExtraAgents == 2

\* ------------------------------------------------------- Python values
PyNone == [t |-> "none"]
PyInt(n) == [t |-> "int", v |-> n]
PyStr(lexemes) == [t |-> "str", v |-> lexemes]
PyList(elems) == [t |-> "list", v |-> elems]
\* A dict literal or a parsed JSON object: its <<key, value>> pairs in
\* insertion order.
PyDict(pairs) == [t |-> "dict", v |-> pairs]

\* One-lexeme string.
Text(s) == PyStr(<<s>>)

HasKey(d, k) == \E i \in 1..Len(d.v) : d.v[i][1] = k

\* dict.get(k, dflt)
DictGet(d, k, dflt) ==
    IF HasKey(d, k)
    THEN d.v[CHOOSE i \in 1..Len(d.v) : d.v[i][1] = k][2]
    ELSE dflt

\* d[k] = val on the pair list: replaces the value of an existing key, else
\* appends the pair.
PairsSet(pairs, k, val) ==
    IF \E i \in 1..Len(pairs) : pairs[i][1] = k
    THEN [i \in 1..Len(pairs) |-> IF pairs[i][1] = k THEN <<k, val>> ELSE pairs[i]]
    ELSE Append(pairs, <<k, val>>)

\* type(x).__name__, as it appears in an AttributeError message.
TypeName(x) ==
    CASE x.t = "none" -> "NoneType"
      [] x.t = "int"  -> "int"
      [] x.t = "str"  -> "str"
      [] x.t = "list" -> "list"
      [] x.t = "dict" -> "dict"

\* ------------------------------------------------------------- json
Digit(n) ==
    CASE n = 0 -> "0" [] n = 1 -> "1" [] n = 2 -> "2" [] n = 3 -> "3"
      [] n = 4 -> "4" [] n = 5 -> "5" [] n = 6 -> "6" [] n = 7 -> "7"
      [] n = 8 -> "8" [] n = 9 -> "9"

RECURSIVE NatToStr(_)
NatToStr(n) == IF n < 10 THEN Digit(n) ELSE NatToStr(n \div 10) \o Digit(n % 10)

IntToStr(n) == IF n < 0 THEN "-" \o NatToStr(0 - n) ELSE NatToStr(n)

Quote(s) == "\"" \o s \o "\""

RECURSIVE Join(_)
Join(lexemes) ==
    IF lexemes = <<>> THEN "" ELSE Head(lexemes) \o Join(Tail(lexemes))

\* The strings and numbers that occur in JSON texts of this model: the
\* lexer recognises a string or number token by its spelling.
JsonStrings ==
    {"score", "explanation", "graph_nodes", "graph_edges", "nodes", "edges",
     "id", "type", "source", "target", "relationship",
     "ok", "sun", "claim", "Input Text", "Empathy", "LACKS"}

JsonNumbers == -1..12

StringTokens == {Quote(s) : s \in JsonStrings}
NumberTokens == {IntToStr(n) : n \in JsonNumbers}
UnquoteTable == [c \in StringTokens |-> CHOOSE s \in JsonStrings : Quote(s) = c]
StrToIntTable == [c \in NumberTokens |-> CHOOSE n \in JsonNumbers : IntToStr(n) = c]

IsStringToken(c) == c \in StringTokens
Unquote(c) == UnquoteTable[c]
IsNumberToken(c) == c \in NumberTokens
StrToInt(c) == StrToIntTable[c]

RECURSIVE json_dumps(_), DumpElems(_), DumpMembers(_)
\* json.dumps(v): the token sequence of the JSON text of v.
json_dumps(v) ==
    CASE v.t = "none" -> <<"null">>
      [] v.t = "int"  -> <<IntToStr(v.v)>>
      [] v.t = "str"  -> <<Quote(Join(v.v))>>
      [] v.t = "list" -> <<"[">> \o DumpElems(v.v) \o <<"]">>
      [] v.t = "dict" -> <<"{">> \o DumpMembers(v.v) \o <<"}">>

DumpElems(elems) ==
    IF elems = <<>> THEN <<>>
    ELSE IF Len(elems) = 1 THEN json_dumps(elems[1])
    ELSE json_dumps(elems[1]) \o <<",">> \o DumpElems(Tail(elems))

DumpMembers(pairs) ==
    IF pairs = <<>> THEN <<>>
    ELSE LET m == <<Quote(pairs[1][1]), ":">> \o json_dumps(pairs[1][2])
         IN  IF Len(pairs) = 1 THEN m ELSE m \o <<",">> \o DumpMembers(Tail(pairs))

ParseFail == [ok |-> FALSE, val |-> PyNone, pos |-> 0]
Parsed(val, pos) == [ok |-> TRUE, val |-> val, pos |-> pos]

RECURSIVE ParseValue(_, _), ParseElems(_, _, _), ParseMembers(_, _, _)
\* Recursive descent over the tokens s from position i; pos is the position
\* after the value read.
ParseValue(s, i) ==
    IF i > Len(s) THEN ParseFail
    ELSE LET c == s[i] IN
         CASE c = "null" -> Parsed(PyNone, i + 1)
           [] c = "[" ->
                IF i + 1 <= Len(s) /\ s[i + 1] = "]"
                THEN Parsed(PyList(<<>>), i + 2)
                ELSE ParseElems(s, i + 1, <<>>)
           [] c = "{" ->
                IF i + 1 <= Len(s) /\ s[i + 1] = "}"
                THEN Parsed(PyDict(<<>>), i + 2)
                ELSE ParseMembers(s, i + 1, <<>>)
           [] c \notin {"null", "[", "{"} /\ IsNumberToken(c) ->
                Parsed(PyInt(StrToInt(c)), i + 1)
           [] c \notin {"null", "[", "{"} /\ ~IsNumberToken(c) /\ IsStringToken(c) ->
                Parsed(Text(Unquote(c)), i + 1)
           [] OTHER -> ParseFail

ParseElems(s, i, acc) ==
    LET r == ParseValue(s, i) IN
    IF ~r.ok \/ r.pos > Len(s) THEN ParseFail
    ELSE IF s[r.pos] = "," THEN ParseElems(s, r.pos + 1, Append(acc, r.val))
    ELSE IF s[r.pos] = "]" THEN Parsed(PyList(Append(acc, r.val)), r.pos + 1)
    ELSE ParseFail

ParseMembers(s, i, acc) ==
    IF i + 1 > Len(s) \/ ~IsStringToken(s[i]) \/ s[i + 1] # ":" THEN ParseFail
    ELSE LET r == ParseValue(s, i + 2)
             k == Unquote(s[i])
         IN  IF ~r.ok \/ r.pos > Len(s) THEN ParseFail
             ELSE IF s[r.pos] = ","
                  THEN ParseMembers(s, r.pos + 1, PairsSet(acc, k, r.val))
             ELSE IF s[r.pos] = "}"
                  THEN Parsed(PyDict(PairsSet(acc, k, r.val)), r.pos + 1)
             ELSE ParseFail

\* json.loads(text): ok is FALSE where json.loads raises JSONDecodeError.
json_loads(text) ==
    LET r == ParseValue(text, 1) IN
    IF r.ok /\ r.pos = Len(text) + 1
    THEN [ok |-> TRUE, val |-> r.val]
    ELSE [ok |-> FALSE, val |-> PyNone]

\* ------------------------------------------------------------ constants
\* Mutants of MAX_WORKERS: a pool smaller than the number of criteria; a
\* pool of one more worker.
MAX_WORKERS_two == 3 - 1

MAX_WORKERS_four == 3 + 1

MAX_WORKERS == 3

\* agent_configs of run_parallel_system_threaded, in dict insertion order.
agent_configs ==
    << [name |-> "Accuracy", tool |-> "check_accuracy",
        desc |-> "Factually accurate, citing correct numbers."],
       [name |-> "Completeness", tool |-> "check_completeness",
        desc |-> "Addresses every aspect of the question."],
       [name |-> "Empathy", tool |-> "check_empathy",
        desc |-> "Tone is warm, understanding, and human-like."] >>

\* A further criterion, for a pool with more agents than workers.
ExtraConfig(i) ==
    [name |-> "Extra" \o NatToStr(i), tool |-> "check_extra" \o NatToStr(i),
     desc |-> "A further criterion."]

\* active_agents of run_parallel_system_threaded, the active_agents_dict of
\* process_single_row_threaded: the configurations of the agents created,
\* in dict insertion order.
VARIABLE active_agents

AgentNames == {active_agents[i].name : i \in 1..Len(active_agents)}
ConfigOf(a) == active_agents[CHOOSE i \in 1..Len(active_agents) : active_agents[i].name = a]

\* Mutant of GradeKey: the key has no prefix.
GradeKey_shared(agent_name) == "grade"

\* f"{agent_name}_grade", f"{agent_name}_reason", f"{agent_name}_graph"
GradeKey(agent_name) == agent_name \o "_grade"
ReasonKey(agent_name) == agent_name \o "_reason"
GraphKey(agent_name) == agent_name \o "_graph"

EmptyMap == [k \in {} |-> PyNone]

\* dict.update on mappings: the entries of e win.
MapUpdate(d, e) == e @@ d

\* The DataFrame built when read_csv fails.
DummyData ==
    << ("id" :> PyInt(101) @@ "Answer" :> Text("The sun is cold and blue.")),
       ("id" :> PyInt(102) @@
        "Answer" :> Text("I understand this is difficult. The treatment is effective.")) >>

\* ------------------------------------------------- run_judgment_llm
\* The dict of the except branch.
JudgeCrashed(e) ==
    PyDict(<< <<"score", PyInt(0)>>,
              <<"explanation", PyStr(<<"Judge crashed: ", e>>)>>,
              <<"graph_nodes", PyList(<<>>)>>,
              <<"graph_edges", PyList(<<>>)>> >>)

JSONDecodeError == "Expecting value: line 1 column 1 (char 0)"

\* Mutant of run_judgment_llm: a response that is no JSON is not caught.
run_judgment_llm_nocatch(reply) ==
    IF reply.kind = "raise" THEN JudgeCrashed(reply.msg)
    ELSE json_loads(reply.text).val

\* reply is what generate_content did: raised, or returned a response whose
\* .text is reply.text.
run_judgment_llm(reply) ==
    IF reply.kind = "raise" THEN JudgeCrashed(reply.msg)
    ELSE LET p == json_loads(reply.text) IN
         IF p.ok THEN p.val ELSE JudgeCrashed(JSONDecodeError)

\* ------------------------------------------------- handle_tool_call
\* A protobuf FunctionCall that is not set is falsy.
NoCall == [name |-> "", args |-> PyDict(<<>>)]

\* Mutant of InputText: the argument of the model is ignored.
InputText_context(tool_call, context_text) == context_text

\* The content handed to run_judgment_llm.
InputText(tool_call, context_text) ==
    IF tool_call.args.v # <<>> /\ HasKey(tool_call.args, "text_content")
    THEN DictGet(tool_call.args, "text_content", PyNone)
    ELSE context_text

\* Mutant of ToolResult: the graph fields get no default.
ToolResult_nodefault(result) ==
    IF result.t # "dict"
    THEN [ok |-> FALSE,
          msg |-> "'" \o TypeName(result) \o "' object has no attribute 'get'",
          val |-> PyNone]
    ELSE [ok |-> TRUE,
          msg |-> "",
          val |-> PyDict(<< <<"status", Text("success")>>,
                            <<"judgment_score", DictGet(result, "score", PyNone)>>,
                            <<"judgment_reason", DictGet(result, "explanation", PyNone)>>,
                            <<"graph_nodes", DictGet(result, "graph_nodes", PyNone)>>,
                            <<"graph_edges", DictGet(result, "graph_edges", PyNone)>> >>)]

\* The part of handle_tool_call after run_judgment_llm returned result:
\* result.get raises AttributeError when result is not a dict.
ToolResult(result) ==
    IF result.t # "dict"
    THEN [ok |-> FALSE,
          msg |-> "'" \o TypeName(result) \o "' object has no attribute 'get'",
          val |-> PyNone]
    ELSE [ok |-> TRUE,
          msg |-> "",
          val |-> PyDict(<< <<"status", Text("success")>>,
                            <<"judgment_score", DictGet(result, "score", PyNone)>>,
                            <<"judgment_reason", DictGet(result, "explanation", PyNone)>>,
                            <<"graph_nodes", DictGet(result, "graph_nodes", PyList(<<>>))>>,
                            <<"graph_edges", DictGet(result, "graph_edges", PyList(<<>>))>> >>)]

\* ----------------------------------------------- run_agent_threaded
\* Mutants of DefaultRecord: the graph field is not initialised; the default
\* grade is a pass.
DefaultRecord_partial(agent_name) ==
    GradeKey(agent_name) :> PyInt(0)
    @@ ReasonKey(agent_name) :> Text("Failed to run")

DefaultRecord_pass(agent_name) ==
    GradeKey(agent_name) :> PyInt(1)
    @@ ReasonKey(agent_name) :> Text("Failed to run")
    @@ GraphKey(agent_name) :> PyStr(<<"[", "]">>)

\* final_data as initialised.
DefaultRecord(agent_name) ==
    GradeKey(agent_name) :> PyInt(0)
    @@ ReasonKey(agent_name) :> Text("Failed to run")
    @@ GraphKey(agent_name) :> PyStr(<<"[", "]">>)

\* Mutant of HasFunctionCall: any content part passes.
HasFunctionCall_anypart(response) == response.parts # <<>>

\* The validation of the response to the forced call: there is a content
\* part and the first one is a function call.
HasFunctionCall(response) ==
    /\ response.parts # <<>>
    /\ response.parts[1].function_call # NoCall

\* final_data after the callback returned result.
CaptureRecord(final_data, agent_name, result) ==
    IF result.t = "dict"
    THEN LET graph_data ==
                 PyDict(<< <<"nodes", DictGet(result, "graph_nodes", PyNone)>>,
                           <<"edges", DictGet(result, "graph_edges", PyNone)>> >>)
         IN  MapUpdate(final_data,
                 GradeKey(agent_name) :> DictGet(result, "judgment_score", PyInt(0))
                 @@ ReasonKey(agent_name) :> DictGet(result, "judgment_reason", Text(""))
                 @@ GraphKey(agent_name) :> PyStr(json_dumps(graph_data)))
    ELSE final_data

\* final_data after the except branch ran for an exception with str(e) = e.
ErrorRecord(final_data, agent_name, e) ==
    MapUpdate(final_data, ReasonKey(agent_name) :> PyStr(<<"Error: ", e>>))

\* ------------------------------------------- process_single_row_threaded
\* Mutant of MergeResult: the exception of a unit discards what was merged.
MergeResult_abort(results, u) ==
    IF u.st = "raised" THEN EmptyMap ELSE MapUpdate(results, u.final_data)

\* results_to_merge after as_completed yielded a future: future.result()
\* returns the record, or raises what the unit raised (caught and printed).
MergeResult(results, u) ==
    IF u.st = "raised" THEN results ELSE MapUpdate(results, u.final_data)

\* The enriched row: a copy of row updated with the merged records.
Combined(row, results) == MapUpdate(row, results)

\* Mutant of RowAfterReturn: combined is the row itself, not a copy.
RowAfterReturn_alias(row, combined_row) == combined_row

\* The mapping the caller passed in, after the function returned: combined
\* is a copy (row.copy()), so updating it leaves row as it was.
RowAfterReturn(row, combined_row) == row

\* ------------------------------------------ run_parallel_system_threaded
\* row.to_dict() with the id synthesised from the index when there is no
\* id column.
RowDict(row, idx) ==
    IF "id" \in DOMAIN row THEN row ELSE MapUpdate(row, "id" :> PyInt(idx))

\* Mutant of AppendRow: the row is put in front.
AppendRow_front(rows, enriched_row) == <<enriched_row>> \o rows

\* final_rows.append(enriched_row)
AppendRow(rows, enriched_row) == Append(rows, enriched_row)

\* --------------------------------------------------- the environment
\* The input file: its state on disk and, when readable, its table.
Files == {"missing", "unreadable", "ok"}

Answers ==
    << "The sun is cold and blue.",
       "I understand this is difficult. The treatment is effective." >>

\* A table of n rows, with or without an id column.
Table(n, hasId) ==
    [i \in 1..n |->
        IF hasId
        THEN "id" :> PyInt(100 + i) @@ "Answer" :> Text(Answers[((i - 1) % 2) + 1])
        ELSE "Answer" :> Text(Answers[((i - 1) % 2) + 1])]

\* str(e) of an exception raised by the google.generativeai client.
ServiceError == "503 Service Unavailable"

\* The JSON objects the judging model may answer with: every field may be
\* missing, null or of an unexpected value.
SunNode == PyDict(<< <<"id", Text("sun")>>, <<"type", Text("claim")>> >>)
LacksEdge ==
    PyDict(<< <<"source", Text("Input Text")>>, <<"target", Text("Empathy")>>,
              <<"relationship", Text("LACKS")>> >>)

Absent == [t |-> "absent"]

Member(k, val) == IF val = Absent THEN <<>> ELSE << <<k, val>> >>

JudgeObject(s, e, n, g) ==
    PyDict(Member("score", s) \o Member("explanation", e)
           \o Member("graph_nodes", n) \o Member("graph_edges", g))

Scores == {Absent, PyNone, PyInt(0), PyInt(1), PyInt(2)}
Explanations == {Absent, Text("ok")}
NodeLists == {Absent, PyNone, PyList(<<>>), PyList(<<SunNode>>)}
EdgeLists == {Absent, PyNone, PyList(<<>>), PyList(<<LacksEdge>>)}

\* A well-formed answer with at most one field changed, and the answer with
\* no graph at all.
JudgeObjects ==
    {JudgeObject(s, Text("ok"), PyList(<<SunNode>>), PyList(<<LacksEdge>>)) : s \in Scores}
    \cup {JudgeObject(PyInt(1), e, PyList(<<SunNode>>), PyList(<<LacksEdge>>)) : e \in Explanations}
    \cup {JudgeObject(PyInt(1), Text("ok"), n, PyList(<<LacksEdge>>)) : n \in NodeLists}
    \cup {JudgeObject(PyInt(1), Text("ok"), PyList(<<SunNode>>), g) : g \in EdgeLists}
    \cup {JudgeObject(PyInt(0), Text("ok"), Absent, Absent)}

\* The answer of the stub of the end-to-end scenario.
StubObject ==
    PyDict(<< <<"score", PyInt(1)>>, <<"explanation", Text("ok")>>,
              <<"graph_nodes", PyList(<<SunNode>>)>>,
              <<"graph_edges", PyList(<<>>)>> >>)

\* Response texts of generate_content: JSON objects, JSON that is no object,
\* and text that is no JSON.
JudgeTexts ==
    {json_dumps(o) : o \in JudgeObjects \cup {StubObject}}
    \cup {json_dumps(PyList(<<>>)), json_dumps(PyInt(1)), json_dumps(PyNone),
          json_dumps(Text("ok"))}
    \cup {<<"I cannot evaluate this.">>, <<"{", Quote("score"), ":", "1">>}

Raise == [kind |-> "raise", msg |-> ServiceError]
TextReply(text) == [kind |-> "text", text |-> text]
\* A response of chat.send_message: the content parts of its first candidate
\* (none when there is no candidate).
Response(parts) == [kind |-> "response", parts |-> parts]
CallPart(name, args) == [function_call |-> [name |-> name, args |-> PyDict(args)]]
TextPart == [function_call |-> NoCall]
NoReply == [kind |-> "none"]

\* How the service behaves in one conversation (one agent on one row):
\*   stub   calls the tool with the text and judges it with StubObject;
\*   down   every call raises;
\*   flaky  every call may raise, the model may reply without its tool;
\*   calls  the reply to the forced call may have any shape;
\*   shapes the judgment may have any shape.
Profiles == {"stub", "down", "flaky", "calls", "shapes"}

\* agent_model.start_chat
ChatOutcomes(p) == IF p = "flaky" THEN {"ok", "raise"} ELSE {"ok"}

\* chat.send_message(user_query, tool_config=forced_mode)
ForcedReplies(p, tool, user_query) ==
    LET call == Response(<<CallPart(tool, << <<"text_content", user_query>> >>)>>) IN
    CASE p = "stub"  -> {call}
      [] p = "down"  -> {Raise}
      [] p = "flaky" -> {Raise, Response(<<>>), call}
      [] p = "shapes" -> {call}
      [] p = "calls" ->
            {call, Response(<<TextPart>>), Response(<<CallPart(tool, <<>>)>>),
             Response(<<CallPart(tool, << <<"text_content", Text("The sun is cold.")>> >>)>>),
             Response(<<CallPart(tool, << <<"other", Text("ok")>> >>)>>),
             Response(<<TextPart, CallPart(tool, << <<"text_content", user_query>> >>)>>)}

\* judge_model.generate_content(prompt, ...)
JudgeReplies(p) ==
    CASE p = "stub"  -> {TextReply(json_dumps(StubObject))}
      [] p = "down"  -> {Raise}
      [] p = "flaky" -> {Raise, TextReply(json_dumps(StubObject))}
      [] p = "calls" -> {TextReply(json_dumps(StubObject))}
      [] p = "shapes" -> {TextReply(t) : t \in JudgeTexts}

\* What run_judgment_llm returns for each thing generate_content can do,
\* computed once.
Judgments ==
    [r \in UNION {JudgeReplies(p) : p \in Profiles} |-> run_judgment_llm(r)]

\* chat.send_message([tool_resp], tool_config=auto_mode)
FollowupReplies(p) ==
    CASE p = "stub"  -> {"ok"}
      [] p = "down"  -> {"raise"}
      [] p = "flaky" -> {"ok", "raise"}
      [] p = "calls" -> {"ok"}
      [] p = "shapes" -> {"ok"}

Uniform(p) == [a \in AgentNames |-> p]

\* The behaviours of the service over the n rows of a run that are explored:
\* every row stubbed or down; one row flaky, the rows before it stubbed and
\* the rows after it down; one agent of the last row facing any shape of
\* reply or of judgment.
UniformScenarios(n) == [1..n -> {Uniform("stub"), Uniform("down")}]

Scenarios(n) ==
    UniformScenarios(n)
    \cup (IF n = 0 THEN {}
          ELSE {[i \in 1..n |->
                    IF i = k THEN Uniform("flaky")
                    ELSE IF i < k THEN Uniform("stub") ELSE Uniform("down")] :
                    k \in 1..n}
               \cup {[i \in 1..n |->
                        IF i = n THEN [a \in AgentNames |-> IF a = b THEN p ELSE "stub"]
                        ELSE Uniform("stub")] : b \in AgentNames, p \in {"calls", "shapes"}})

\* ------------------------------------------------------------- state
VARIABLES
    file,             \* state of sm_answers.csv on disk
    csv,              \* its table, when readable
    svc,              \* svc[i][a]: profile of the service for agent a on row i
    pc,               \* position of the main thread
    df,               \* the DataFrame of run_parallel_system_threaded
    index,            \* index of the row of the loop
    row_dict,         \* the mapping passed to process_single_row_threaded
    unit,             \* unit[a]: the future and the run of agent a for this row
    yielded,          \* agents whose future as_completed has yielded
    results_to_merge,
    combined,         \* the row process_single_row_threaded returned last
    final_rows,
    written,          \* rows of the report file (<<>> until it is written)
    timer             \* timer[a]: ticks until the external call of a answers

vars == <<active_agents, file, csv, svc, pc, df, index, row_dict, unit, yielded,
          results_to_merge, combined, final_rows, written, timer>>

env == <<active_agents, file, csv, svc>>

\* A unit before it is submitted.  st: none, queued, forced_sent, judge_sent,
\* followup_sent, returned, raised.  forced, judge, followup: what the
\* service answered in this run; request: the arguments of run_judgment_llm;
\* judgment: what run_judgment_llm returned; result: what handle_tool_call
\* returned; calls: the external calls made so far, in order (forced: the
\* first send_message, judge: generate_content, followup: the second
\* send_message).
NoUnit ==
    [st |-> "none", final_data |-> EmptyMap, exc |-> "",
     forced |-> NoReply, request |-> PyNone, judge |-> NoReply,
     judgment |-> PyNone, result |-> PyNone, followup |-> "none",
     calls |-> <<>>]

Running == {a \in AgentNames : unit[a].st \in {"forced_sent", "judge_sent", "followup_sent"}}

\* Mutants of Finished: a future counts as done once its unit has started;
\* a future whose unit raised never counts as done.
Finished_eager == {a \in AgentNames : unit[a].st \notin {"none", "queued"}}

Finished_returned == {a \in AgentNames : unit[a].st = "returned"}

Finished == {a \in AgentNames : unit[a].st \in {"returned", "raised"}}

Profile(a) == svc[index + 1][a]

\* The main thread before the __main__ guard: nothing read, nothing run.
Start ==
    /\ pc = "main"
    /\ df = <<>>
    /\ index = 0
    /\ row_dict = EmptyMap
    /\ unit = [a \in AgentNames |-> NoUnit]
    /\ yielded = {}
    /\ results_to_merge = EmptyMap
    /\ combined = EmptyMap
    /\ final_rows = <<>>
    /\ written = <<>>
    /\ timer = [a \in AgentNames |-> 0]

Init ==
    /\ active_agents = agent_configs
    /\ \E f \in Files, n \in 0..MaxRows, hasId \in BOOLEAN :
          /\ f # "ok" => (n = 0 /\ hasId)
          /\ file = f
          /\ csv = Table(n, hasId)
          /\ svc \in CASE f = "ok" /\ hasId -> Scenarios(n)
                      [] f = "ok" /\ ~hasId -> UniformScenarios(n)
                      [] f = "unreadable" -> UniformScenarios(Len(DummyData))
                      [] f = "missing" -> {<<>>}
    /\ Start

\* The pool with more agents than workers: process_single_row_threaded on
\* one row for the three criteria and up to ExtraAgents further ones; the
\* service is stubbed or down for all of them.
InitPool ==
    /\ \E k \in 1..ExtraAgents :
          active_agents = agent_configs \o [i \in 1..k |-> ExtraConfig(i)]
    /\ file = "ok"
    /\ csv = Table(1, TRUE)
    /\ svc \in UniformScenarios(1)
    /\ Start

\* The runs checked for termination: any file, every row stubbed or down,
\* or the last row flaky after stubbed rows.
InitLive ==
    /\ active_agents = agent_configs
    /\ \E f \in Files, n \in 0..MaxRows :
          /\ f # "ok" => n = 0
          /\ file = f
          /\ csv = Table(n, TRUE)
          /\ svc \in CASE f = "ok" ->
                          UniformScenarios(n)
                          \cup (IF n = 0 THEN {}
                                ELSE {[i \in 1..n |->
                                         IF i = n THEN Uniform("flaky")
                                         ELSE Uniform("stub")]})
                      [] f = "unreadable" -> UniformScenarios(Len(DummyData))
                      [] f = "missing" -> {<<>>}
    /\ Start

\* --------------------------------------------------------- main thread
\* The __main__ guard: without sm_answers.csv nothing is run.
Main ==
    /\ pc = "main"
    /\ pc' = IF file = "missing" THEN "exit" ELSE "read_csv"
    /\ UNCHANGED <<env, df, index, row_dict, unit, yielded, results_to_merge,
                   combined, final_rows, written, timer>>

\* run_parallel_system_threaded up to the row loop: read_csv or the dummy
\* data, then the agents of agent_configs are created.
ReadCsv ==
    /\ pc = "read_csv"
    /\ df' = IF file = "ok" THEN csv ELSE DummyData
    /\ index' = 0
    /\ final_rows' = <<>>
    /\ pc' = "iterrows"
    /\ UNCHANGED <<env, row_dict, unit, yielded, results_to_merge, combined,
                   written, timer>>

\* Next iteration of df.iterrows(): row_dict is built and
\* process_single_row_threaded is entered (the pool is created).
NextRow ==
    /\ pc = "iterrows"
    /\ index < Len(df)
    /\ row_dict' = RowDict(df[index + 1], index)
    /\ results_to_merge' = EmptyMap
    /\ unit' = [a \in AgentNames |-> NoUnit]
    /\ yielded' = {}
    /\ pc' = "submit"
    /\ UNCHANGED <<env, df, index, combined, final_rows, written, timer>>

\* executor.submit for the next agent of active_agents_dict, in its order.
Submit ==
    /\ pc = "submit"
    /\ LET i == CHOOSE j \in 1..Len(active_agents) :
                    /\ unit[active_agents[j].name].st = "none"
                    /\ \A k \in 1..(j - 1) : unit[active_agents[k].name].st # "none"
           a == active_agents[i].name
       IN  /\ unit' = [unit EXCEPT ![a].st = "queued"]
           /\ pc' = IF i = Len(active_agents) THEN "as_completed" ELSE "submit"
    /\ UNCHANGED <<env, df, index, row_dict, yielded, results_to_merge, combined,
                   final_rows, written, timer>>

\* One iteration of the as_completed loop: a finished future is yielded and
\* its record merged, or its exception caught.
AsCompleted(a) ==
    /\ pc = "as_completed"
    /\ a \in Finished \ yielded
    /\ yielded' = yielded \cup {a}
    /\ results_to_merge' = MergeResult(results_to_merge, unit[a])
    /\ UNCHANGED <<env, pc, df, index, row_dict, unit, combined, final_rows,
                   written, timer>>

\* as_completed is exhausted, the pool is shut down, the row is copied and
\* updated, returned, and appended to final_rows.
ReturnRow ==
    /\ pc = "as_completed"
    /\ yielded = AgentNames
    /\ combined' = Combined(row_dict, results_to_merge)
    /\ row_dict' = RowAfterReturn(row_dict, combined')
    /\ final_rows' = AppendRow(final_rows, combined')
    /\ pc' = "sleep"
    /\ UNCHANGED <<env, df, index, unit, yielded, results_to_merge, written, timer>>

\* time.sleep(1), then the loop goes on.
Sleep ==
    /\ pc = "sleep"
    /\ index' = index + 1
    /\ pc' = "iterrows"
    /\ UNCHANGED <<env, df, row_dict, unit, yielded, results_to_merge, combined,
                   final_rows, written, timer>>

\* The loop is over: the report is written.
ToCsv ==
    /\ pc = "iterrows"
    /\ index = Len(df)
    /\ written' = final_rows
    /\ pc' = "done"
    /\ UNCHANGED <<env, df, index, row_dict, unit, yielded, results_to_merge,
                   combined, final_rows, timer>>

\* ------------------------------------------------------ worker threads
\* A worker takes the unit: start_chat, final_data initialised, the forced
\* call sent.  An exception of start_chat escapes run_agent_threaded.
StartUnit(a, lat) ==
    /\ unit[a].st = "queued"
    /\ Cardinality(Running) < MAX_WORKERS
    /\ \E c \in ChatOutcomes(Profile(a)) :
          IF c = "raise"
          THEN /\ unit' = [unit EXCEPT ![a].st = "raised", ![a].exc = ServiceError]
               /\ timer' = timer
          ELSE /\ unit' = [unit EXCEPT ![a].st = "forced_sent",
                                       ![a].final_data = DefaultRecord(a),
                                       ![a].calls = <<"forced">>]
               /\ timer' = [timer EXCEPT ![a] = lat]
    /\ UNCHANGED <<env, pc, df, index, row_dict, yielded, results_to_merge,
                   combined, final_rows, written>>

\* The forced call answered.  The response is validated; with a function
\* call as first part handle_tool_call is entered and run_judgment_llm sends
\* its request.
RecvForced(a, lat) ==
    /\ unit[a].st = "forced_sent"
    /\ timer[a] = 0
    /\ \E r \in ForcedReplies(Profile(a), ConfigOf(a).tool, row_dict["Answer"]) :
          IF r.kind = "raise"
          THEN /\ unit' = [unit EXCEPT
                              ![a].st = "returned",
                              ![a].forced = r,
                              ![a].final_data = ErrorRecord(unit[a].final_data, a, r.msg)]
               /\ timer' = timer
          ELSE IF ~HasFunctionCall(r)
          THEN /\ unit' = [unit EXCEPT ![a].st = "returned", ![a].forced = r]
               /\ timer' = timer
          ELSE /\ unit' = [unit EXCEPT
                              ![a].st = "judge_sent",
                              ![a].forced = r,
                              ![a].calls = Append(unit[a].calls, "judge"),
                              ![a].request =
                                  PyDict(<< <<"criteria_name", Text(a)>>,
                                            <<"criteria_desc", Text(ConfigOf(a).desc)>>,
                                            <<"content",
                                              InputText(r.parts[1].function_call,
                                                        row_dict["Answer"])>> >>)]
               /\ timer' = [timer EXCEPT ![a] = lat]
    /\ UNCHANGED <<env, pc, df, index, row_dict, yielded, results_to_merge,
                   combined, final_rows, written>>

\* generate_content answered: run_judgment_llm returns, handle_tool_call
\* returns or raises, the record is captured and the follow-up is sent.
RecvJudge(a, lat) ==
    /\ unit[a].st = "judge_sent"
    /\ timer[a] = 0
    /\ \E r \in JudgeReplies(Profile(a)) :
          \E judgment \in {Judgments[r]} :
          \E tr \in {ToolResult(judgment)} :
          IF ~tr.ok
          THEN /\ unit' = [unit EXCEPT
                              ![a].st = "returned",
                              ![a].judge = r,
                              ![a].judgment = judgment,
                              ![a].final_data = ErrorRecord(unit[a].final_data, a, tr.msg)]
               /\ timer' = timer
          ELSE /\ unit' = [unit EXCEPT
                              ![a].st = "followup_sent",
                              ![a].judge = r,
                              ![a].judgment = judgment,
                              ![a].result = tr.val,
                              ![a].calls = Append(unit[a].calls, "followup"),
                              ![a].final_data = CaptureRecord(unit[a].final_data, a, tr.val)]
               /\ timer' = [timer EXCEPT ![a] = lat]
    /\ UNCHANGED <<env, pc, df, index, row_dict, yielded, results_to_merge,
                   combined, final_rows, written>>

\* The follow-up answered or raised; run_agent_threaded returns final_data.
RecvFollowup(a) ==
    /\ unit[a].st = "followup_sent"
    /\ timer[a] = 0
    /\ \E r \in FollowupReplies(Profile(a)) :
          unit' = [unit EXCEPT
                      ![a].st = "returned",
                      ![a].followup = r,
                      ![a].final_data =
                          IF r = "raise"
                          THEN ErrorRecord(unit[a].final_data, a, ServiceError)
                          ELSE unit[a].final_data]
    /\ UNCHANGED <<env, pc, df, index, row_dict, yielded, results_to_merge,
                   combined, final_rows, written, timer>>

MainStep == Main \/ ReadCsv \/ NextRow \/ Submit \/ ReturnRow \/ Sleep \/ ToCsv

\* Threads interleave freely and an external call answers at any time.
Next ==
    \/ MainStep
    \/ \E a \in AgentNames : AsCompleted(a)
    \/ \E a \in AgentNames : StartUnit(a, 0)
    \/ \E a \in AgentNames : RecvForced(a, 0)
    \/ \E a \in AgentNames : RecvJudge(a, 0)
    \/ \E a \in AgentNames : RecvFollowup(a)

Spec == Init /\ [][Next]_vars

\* Every thread that can step eventually steps and every external call
\* eventually answers: a step is taken as long as one is possible.
SpecLive == InitLive /\ [][Next]_vars /\ WF_vars(Next)

SpecPool == InitPool /\ [][Next]_vars /\ WF_vars(Next)

\* ------------------------------------------------- equal latencies
\* Every external call takes Latency ticks and local steps take no time:
\* the clock advances only when no thread can take a step.
CanStep ==
    \/ pc \in {"main", "read_csv", "iterrows", "submit", "sleep"}
    \/ pc = "as_completed" /\ (Finished \ yielded # {} \/ yielded = AgentNames)
    \/ \E a \in AgentNames : unit[a].st = "queued" /\ Cardinality(Running) < MAX_WORKERS
    \/ \E a \in Running : timer[a] = 0

Tick ==
    /\ ~CanStep
    /\ \E a \in Running : timer[a] > 0
    /\ timer' = [a \in AgentNames |-> IF timer[a] > 0 THEN timer[a] - 1 ELSE 0]
    /\ UNCHANGED <<env, pc, df, index, row_dict, unit, yielded, results_to_merge,
                   combined, final_rows, written>>

NextTimed ==
    \/ MainStep
    \/ \E a \in AgentNames : AsCompleted(a)
    \/ \E a \in AgentNames : StartUnit(a, Latency)
    \/ \E a \in AgentNames : RecvForced(a, Latency)
    \/ \E a \in AgentNames : RecvJudge(a, Latency)
    \/ \E a \in AgentNames : RecvFollowup(a)
    \/ Tick

SpecTimed == Init /\ [][NextTimed]_vars
\* ================================================================ claims
TripleKeys(a) == {GradeKey(a), ReasonKey(a), GraphKey(a)}

\* process_single_row_threaded has just returned combined.
RowReturned == pc = "sleep"

\* The rows produced so far.
OutputRows == {final_rows[i] : i \in 1..Len(final_rows)}

\* C1: when run_agent_threaded returned for criterion a (no exception
\* escaped it), the enriched row has the three fields of a; and every
\* enriched row has all three fields of a criterion or none of them.
C1_TripleComplete ==
    /\ RowReturned =>
          \A a \in AgentNames :
              unit[a].st = "returned" => TripleKeys(a) \subseteq DOMAIN combined
    /\ \A row \in OutputRows, a \in AgentNames :
          \/ TripleKeys(a) \subseteq DOMAIN row
          \/ TripleKeys(a) \cap DOMAIN row = {}

\* A row returned where one unit let an exception escape (no field of it)
\* and another failed inside run_agent_threaded (all three fields).
C1_Witness ==
    /\ RowReturned
    /\ \E a, b \in AgentNames :
          /\ unit[a].st = "raised"
          /\ TripleKeys(a) \cap DOMAIN combined = {}
          /\ unit[b].st = "returned"
          /\ unit[b].forced.kind = "raise"
          /\ TripleKeys(b) \subseteq DOMAIN combined

\* The text parses to an object with exactly the keys nodes and edges, each
\* an array.
WellFormedGraph(g) ==
    /\ g.t = "str"
    /\ LET p == json_loads(g.v) IN
       /\ p.ok
       /\ p.val.t = "dict"
       /\ Len(p.val.v) = 2
       /\ {p.val.v[i][1] : i \in 1..Len(p.val.v)} = {"nodes", "edges"}
       /\ \A i \in 1..Len(p.val.v) : p.val.v[i][2].t = "list"

\* C2: every graph field of an enriched row is a JSON text of an object
\* with exactly the keys nodes and edges, each an array.
C2_GraphWellFormed ==
    \A row \in OutputRows, a \in AgentNames :
        GraphKey(a) \in DOMAIN row => WellFormedGraph(row[GraphKey(a)])

\* C3: the row returned has the id and the Answer of the row passed in,
\* every field of the row passed in is kept, only fields of the criteria
\* are added, and the mapping passed in is as it was at the call.
C3_SourceFieldsKept ==
    RowReturned =>
        LET passed == RowDict(df[index + 1], index) IN
        /\ combined["id"] = passed["id"]
        /\ combined["Answer"] = passed["Answer"]
        /\ \A k \in DOMAIN passed : combined[k] = passed[k]
        /\ DOMAIN combined \ DOMAIN passed \subseteq UNION {TripleKeys(a) : a \in AgentNames}
        /\ row_dict = passed

\* A row returned with the fields of a successful judgment added.
C3_Witness ==
    /\ RowReturned
    /\ \E a \in AgentNames :
          /\ unit[a].st = "returned"
          /\ unit[a].followup = "ok"
          /\ combined[GradeKey(a)] = PyInt(1)
    /\ "id" \in DOMAIN row_dict

\* Every call to the service raises, on every row.
AllDown == \A i \in 1..Len(svc) : svc[i] = Uniform("down")

HasFailureMarker(reason) ==
    /\ reason.t = "str"
    /\ reason.v # <<>>
    /\ reason.v[1] \in {"Failed to run", "Error: ", "Judge crashed: "}

\* No thread is blocked for ever: the main thread or a worker can step.
CanProceed ==
    \/ pc \in {"main", "read_csv", "iterrows", "submit", "sleep"}
    \/ pc = "as_completed" /\ (Finished \ yielded # {} \/ yielded = AgentNames)
    \/ \E a \in AgentNames : unit[a].st = "queued" /\ Cardinality(Running) < MAX_WORKERS
    \/ Running # {}

\* C4: when every call to the service raises, every output row has grade 0
\* and a reason with a failure marker for every criterion, the run never
\* stops before the report is written, and the report has one row per row
\* of the input.
C4_ServiceDown ==
    (AllDown /\ file # "missing") =>
        /\ \A row \in OutputRows, a \in AgentNames :
              /\ TripleKeys(a) \subseteq DOMAIN row
              /\ row[GradeKey(a)] = PyInt(0)
              /\ HasFailureMarker(row[ReasonKey(a)])
        /\ pc # "done" => CanProceed
        /\ pc = "done" => /\ Len(written) = Len(df)
                          /\ written = final_rows

\* The report of a run of two rows with the service down is written.
C4_Witness ==
    /\ AllDown
    /\ pc = "done"
    /\ Len(written) = 2
    /\ \A a \in AgentNames : written[2][ReasonKey(a)] = PyStr(<<"Error: ", ServiceError>>)

\* C5: every grade field of an enriched row is the integer 0 or 1.
C5_GradeIsBit ==
    \A row \in OutputRows, a \in AgentNames :
        GradeKey(a) \in DOMAIN row => row[GradeKey(a)] \in {PyInt(0), PyInt(1)}

\* Every conversation is served by the stub of the end-to-end scenario.
AllStub == \A i \in 1..Len(svc) : svc[i] = Uniform("stub")

\* The object the judging model answered with, when its text is one.
JudgedObject(a) ==
    IF unit[a].judge.kind = "text" THEN json_loads(unit[a].judge.text)
    ELSE [ok |-> FALSE, val |-> PyNone]

\* C6: when the forced call returned a function call, the judging model
\* answered with an object that has a score s and an explanation e, and the
\* follow-up succeeded, the record returned has grade s, reason e and a
\* graph that is the JSON text of {nodes: N, edges: E}, N and E being the
\* empty array when the object omits them; and a run served by the stub
\* writes one row per input row with every grade equal to 1.
C6_RecordFromJudgment ==
    /\ \A a \in AgentNames :
          LET p == JudgedObject(a) IN
          (/\ unit[a].st = "returned"
           /\ unit[a].followup = "ok"
           /\ p.ok
           /\ p.val.t = "dict"
           /\ HasKey(p.val, "score")
           /\ HasKey(p.val, "explanation")) =>
              /\ DOMAIN unit[a].final_data = TripleKeys(a)
              /\ unit[a].final_data[GradeKey(a)] = DictGet(p.val, "score", PyNone)
              /\ unit[a].final_data[ReasonKey(a)] = DictGet(p.val, "explanation", PyNone)
              /\ unit[a].final_data[GraphKey(a)].t = "str"
              /\ json_loads(unit[a].final_data[GraphKey(a)].v) =
                    [ok |-> TRUE,
                     val |-> PyDict(<< <<"nodes", DictGet(p.val, "graph_nodes", PyList(<<>>))>>,
                                       <<"edges", DictGet(p.val, "graph_edges", PyList(<<>>))>> >>)]
    /\ (AllStub /\ pc = "done") =>
          /\ Len(written) = Len(df)
          /\ \A i \in 1..Len(written), a \in AgentNames :
                /\ GradeKey(a) \in DOMAIN written[i]
                /\ written[i][GradeKey(a)] = PyInt(1)

\* A record returned for a judgment that has neither nodes nor edges.
C6_Witness ==
    \E a \in AgentNames :
        LET p == JudgedObject(a) IN
        /\ unit[a].st = "returned"
        /\ unit[a].followup = "ok"
        /\ p.ok
        /\ p.val.t = "dict"
        /\ HasKey(p.val, "score")
        /\ HasKey(p.val, "explanation")
        /\ ~HasKey(p.val, "graph_nodes")
        /\ ~HasKey(p.val, "graph_edges")
        /\ unit[a].final_data[GraphKey(a)] =
              PyStr(<<"{", Quote("nodes"), ":", "[", "]", ",", Quote("edges"), ":", "[", "]", "}">>)

\* C7: when the row is returned every unit has finished; a unit that let an
\* exception escape left no field in the row; every other unit has its three
\* fields in the row with the values it returned; and the row is the last
\* of final_rows.
C7_FanIn ==
    RowReturned =>
        /\ Finished = AgentNames
        /\ \A a \in AgentNames :
              unit[a].st = "raised" => TripleKeys(a) \cap DOMAIN combined = {}
        /\ \A a \in AgentNames :
              unit[a].st = "returned" =>
                  \A k \in TripleKeys(a) :
                      /\ k \in DOMAIN combined
                      /\ k \in DOMAIN unit[a].final_data
                      /\ combined[k] = unit[a].final_data[k]
        /\ Len(final_rows) = index + 1
        /\ final_rows[index + 1] = combined

\* A row returned where one unit let an exception escape and another
\* judged successfully.
C7_Witness ==
    /\ RowReturned
    /\ \E a, b \in AgentNames :
          /\ unit[a].st = "raised"
          /\ unit[b].st = "returned"
          /\ unit[b].followup = "ok"
          /\ combined[GradeKey(b)] = PyInt(1)

\* The id of row i of the DataFrame: its id field, or its index.
IdOf(i) == IF "id" \in DOMAIN df[i] THEN df[i]["id"] ELSE PyInt(i - 1)

\* C8: final_rows holds one enriched row for each row the loop has been
\* through, in the order of the DataFrame, each with the id and the Answer
\* of its input row; the report written has one row per input row.
C8_OutputInInputOrder ==
    /\ Len(final_rows) =
          CASE pc \in {"main", "exit", "read_csv"} -> 0
            [] pc = "sleep" -> index + 1
            [] OTHER -> index
    /\ \A i \in 1..Len(final_rows) :
          /\ i <= Len(df)
          /\ final_rows[i]["Answer"] = df[i]["Answer"]
          /\ final_rows[i]["id"] = IdOf(i)
    /\ pc = "done" => /\ written = final_rows
                      /\ Len(written) = Len(df)

\* A report of two rows, the first one without the fields of a criterion
\* whose unit let an exception escape.
C8_Witness ==
    /\ pc = "done"
    /\ Len(written) = 2
    /\ written[1]["id"] # written[2]["id"]
    /\ \E a \in AgentNames : GradeKey(a) \notin DOMAIN written[1]

Started(a) == unit[a].st \notin {"none", "queued"}

\* C9: with external calls of equal latency, a submitted unit never waits
\* for a worker, and when a unit has returned from its calls every unit of
\* the row has begun.
C9_AllBeginBeforeAnyCompletes ==
    /\ \A b \in AgentNames :
          unit[b].st = "queued" => Cardinality(Running) < MAX_WORKERS
    /\ \A a \in AgentNames :
          unit[a].st = "returned" => \A b \in AgentNames : Started(b)

\* A unit has returned while another is still waiting for an answer.
C9_Witness ==
    \E a, b \in AgentNames :
        /\ unit[a].st = "returned"
        /\ unit[b].st \in {"judge_sent", "followup_sent"}
        /\ timer[b] > 0

\* generate_content raised, or its text is no JSON.
JudgeCallFailed(a) ==
    /\ unit[a].judge # NoReply
    /\ IF unit[a].judge.kind = "raise" THEN TRUE
       ELSE ~json_loads(unit[a].judge.text).ok

\* C10: when the external call raised or its text is no JSON,
\* run_judgment_llm returned score 0, an explanation of the failure and empty
\* graph_nodes and graph_edges, and its caller went on with that result.
C10_JudgeNeverRaises ==
    \A a \in AgentNames :
        JudgeCallFailed(a) =>
            /\ unit[a].judgment.t = "dict"
            /\ DictGet(unit[a].judgment, "score", PyNone) = PyInt(0)
            /\ DictGet(unit[a].judgment, "explanation", PyNone).t = "str"
            /\ Len(DictGet(unit[a].judgment, "explanation", PyNone).v) = 2
            /\ DictGet(unit[a].judgment, "explanation", PyNone).v[1] = "Judge crashed: "
            /\ DictGet(unit[a].judgment, "graph_nodes", PyNone) = PyList(<<>>)
            /\ DictGet(unit[a].judgment, "graph_edges", PyNone) = PyList(<<>>)
            /\ unit[a].result.t = "dict"
            /\ unit[a].final_data[GradeKey(a)] = PyInt(0)

\* The judging model answered with text that is no JSON.
C10_Witness ==
    \E a \in AgentNames :
        /\ JudgeCallFailed(a)
        /\ unit[a].judge.kind = "text"
        /\ unit[a].judgment = JudgeCrashed(JSONDecodeError)

\* The four fields the judgment prompt asks for.
JudgmentFields == {"score", "explanation", "graph_nodes", "graph_edges"}

\* The judging model answered with JSON that is no object, or an object that
\* lacks one of the four fields.
InvalidShape(a) ==
    /\ unit[a].judge # NoReply
    /\ unit[a].judge.kind = "text"
    /\ LET p == json_loads(unit[a].judge.text) IN
       /\ p.ok
       /\ \/ p.val.t # "dict"
          \/ \E k \in JudgmentFields : ~HasKey(p.val, k)

\* C11: when the judging model answered with valid JSON of invalid shape,
\* run_judgment_llm returned the degraded result (score 0, an explanation of
\* the failure, empty graph_nodes and graph_edges), and handle_tool_call
\* returned its result: no exception and no missing field reached it.
C11_InvalidShapeRecovered ==
    \A a \in AgentNames :
        InvalidShape(a) =>
            /\ unit[a].judgment.t = "dict"
            /\ \A k \in JudgmentFields : HasKey(unit[a].judgment, k)
            /\ DictGet(unit[a].judgment, "score", PyNone) = PyInt(0)
            /\ DictGet(unit[a].judgment, "graph_nodes", PyNone) = PyList(<<>>)
            /\ DictGet(unit[a].judgment, "graph_edges", PyNone) = PyList(<<>>)
            /\ unit[a].result.t = "dict"

\* The callback returned and the follow-up message raised.
FollowupFailed(a) == unit[a].st = "returned" /\ unit[a].followup = "raise"

\* C12: when the follow-up message raised after handle_tool_call returned,
\* the record returned has exactly the grade, the reason and the graph that
\* were captured from the result of the callback.
C12_FollowupKeepsRecord ==
    \A a \in AgentNames :
        FollowupFailed(a) =>
            unit[a].final_data = CaptureRecord(DefaultRecord(a), a, unit[a].result)

\* run_agent_threaded returned after a failure: the forced call raised or
\* had no function call, the callback raised, or the follow-up raised.
RunFailed(a) ==
    /\ unit[a].st = "returned"
    /\ \/ unit[a].forced.kind = "raise"
       \/ unit[a].judge = NoReply
       \/ unit[a].result = PyNone
       \/ unit[a].followup = "raise"

EmptyGraph == PyDict(<< <<"nodes", PyList(<<>>)>>, <<"edges", PyList(<<>>)>> >>)

IsErrorReason(reason) ==
    reason.t = "str" /\ reason.v # <<>> /\ reason.v[1] = "Error: "

\* C13: a record returned after a failure has grade 0, the reason
\* "Failed to run" or "Error: ...", and a graph that is the JSON text of
\* {nodes: [], edges: []}; no record returned has an "Error: ..." reason
\* with another grade or another graph.
C13_FailureDefaults ==
    \A a \in AgentNames :
        /\ RunFailed(a) =>
              /\ unit[a].final_data[GradeKey(a)] = PyInt(0)
              /\ \/ unit[a].final_data[ReasonKey(a)] = Text("Failed to run")
                 \/ IsErrorReason(unit[a].final_data[ReasonKey(a)])
              /\ json_loads(unit[a].final_data[GraphKey(a)].v) =
                    [ok |-> TRUE, val |-> EmptyGraph]
        /\ (unit[a].st = "returned" /\ IsErrorReason(unit[a].final_data[ReasonKey(a)])) =>
              /\ unit[a].final_data[GradeKey(a)] = PyInt(0)
              /\ json_loads(unit[a].final_data[GraphKey(a)].v) =
                    [ok |-> TRUE, val |-> EmptyGraph]

\* The response to the forced call of a had no function call as first part.
NoFunctionCall(a) ==
    /\ unit[a].forced.kind = "response"
    /\ \/ unit[a].forced.parts = <<>>
       \/ unit[a].forced.parts[1].function_call = NoCall

\* C14: the external calls of a run are made in the order forced call,
\* judgment, follow-up, each at most once; the judgment is requested only
\* after the forced call was answered with a function call as first part;
\* the follow-up is sent only after the callback returned; and when the
\* answer has no function call as first part the run returns after the
\* forced call alone with grade 0 and the reason "Failed to run".
C14_ProtocolOrder ==
    \A a \in AgentNames :
        /\ \E n \in 0..3 : unit[a].calls = SubSeq(<<"forced", "judge", "followup">>, 1, n)
        /\ Len(unit[a].calls) >= 2 =>
              /\ unit[a].forced.kind = "response"
              /\ unit[a].forced.parts # <<>>
              /\ unit[a].forced.parts[1].function_call # NoCall
        /\ Len(unit[a].calls) = 3 => unit[a].result.t = "dict"
        /\ (unit[a].judge # NoReply \/ unit[a].request # PyNone) => Len(unit[a].calls) >= 2
        /\ unit[a].followup # "none" => Len(unit[a].calls) = 3
        /\ NoFunctionCall(a) =>
              /\ unit[a].st = "returned"
              /\ unit[a].calls = <<"forced">>
              /\ unit[a].judge = NoReply
              /\ unit[a].followup = "none"
              /\ unit[a].final_data[GradeKey(a)] = PyInt(0)
              /\ unit[a].final_data[ReasonKey(a)] = Text("Failed to run")

\* One run returned after all three calls while another returned after an
\* answer whose first part is text and whose second part is a function call.
C14_Witness ==
    \E a, b \in AgentNames :
        /\ unit[a].st = "returned"
        /\ unit[a].calls = <<"forced", "judge", "followup">>
        /\ unit[b].st = "returned"
        /\ NoFunctionCall(b)
        /\ Len(unit[b].forced.parts) = 2
        /\ unit[b].forced.parts[2].function_call # NoCall
        /\ unit[b].final_data[ReasonKey(b)] = Text("Failed to run")

\* The units whose future returned a record.
Returned == {a \in AgentNames : unit[a].st = "returned"}

\* The union of the records of the units of S, defined when no key is in
\* two of them.
RecordsOf(S) ==
    [k \in UNION {DOMAIN unit[a].final_data : a \in S} |->
        LET a == CHOOSE b \in S : k \in DOMAIN unit[b].final_data
        IN  unit[a].final_data[k]]

\* C15: the records of distinct criteria have no key in common (each has
\* only keys prefixed with its criterion name), so what has been merged is
\* the union of the records yielded so far and the enriched row is the row
\* updated with the union of all records returned, whatever the order in
\* which the units completed.
C15_OrderIndependent ==
    /\ \A a, b \in AgentNames :
          /\ DOMAIN unit[a].final_data \subseteq TripleKeys(a)
          /\ a # b => TripleKeys(a) \cap TripleKeys(b) = {}
          /\ a # b => DOMAIN unit[a].final_data \cap DOMAIN unit[b].final_data = {}
    /\ pc = "as_completed" => results_to_merge = RecordsOf(Returned \cap yielded)
    /\ RowReturned => combined = MapUpdate(row_dict, RecordsOf(Returned))

\* A row returned where two units returned different grades and different
\* reasons.
C15_Witness ==
    /\ RowReturned
    /\ \E a, b \in AgentNames :
          /\ {a, b} \subseteq Returned
          /\ combined[GradeKey(a)] = PyInt(1)
          /\ combined[GradeKey(b)] = PyInt(0)
          /\ combined[ReasonKey(a)] # combined[ReasonKey(b)]

\* A unit of the current row has been submitted and has not finished.
Pending == {a \in AgentNames : unit[a].st \in {"queued", "forced_sent", "judge_sent", "followup_sent"}}

\* C16: a unit is submitted or running only between the creation of the
\* pool of its row and the return of process_single_row_threaded, when every
\* row before its own has been appended and its own has not; when the row
\* is appended and when the loop moves to the next row no unit is submitted
\* or running; and final_rows changes only by the append of the row loop,
\* one row at a time, not by a step of a unit.
C16_RowsSequential ==
    /\ [](Pending # {} =>
              /\ pc \in {"submit", "as_completed"}
              /\ index < Len(df)
              /\ Len(final_rows) = index)
    /\ [][/\ final_rows' # final_rows =>
                /\ pc = "as_completed" /\ pc' = "sleep"
                /\ Pending = {}
                /\ unit' = unit
                /\ Len(final_rows') = Len(final_rows) + 1
                /\ SubSeq(final_rows', 1, Len(final_rows)) = final_rows
          /\ \A a \in AgentNames :
                (unit[a].st = "none" /\ unit'[a].st # "none") =>
                    /\ pc = "submit"
                    /\ Len(final_rows) = index
          /\ index' # index => (Pending = {} /\ Len(final_rows) = index')]_vars

\* The second row is being evaluated: the first is in final_rows, and a unit
\* of the second is waiting for an answer while another has finished.
C16_Witness ==
    /\ index = 1
    /\ Len(final_rows) = 1
    /\ pc = "as_completed"
    /\ \E a, b \in AgentNames :
          /\ unit[a].st = "judge_sent"
          /\ unit[b].st = "returned"

\* C17: with more agents than workers, at most 3 runs are in progress
\* (started and not finished); a submitted unit starts only when fewer than
\* 3 are in progress, so the units beyond the third start only after a
\* running one finished; and once all units are submitted every one of them
\* is eventually run.
C17_BoundedPool ==
    /\ [](Cardinality(Running) <= 3)
    /\ [][\A a \in AgentNames :
             (unit[a].st = "queued" /\ unit'[a].st # "queued") =>
                 /\ Cardinality(Running) < 3
                 /\ Cardinality({b \in AgentNames : Started(b)}) >= 3
                       => Finished # {}]_vars
    /\ (pc = "as_completed") ~> (\A a \in AgentNames : Started(a))

\* Five agents: three runs are in progress, one unit has finished and one
\* is still waiting for a worker.
C17_Witness ==
    /\ Cardinality(AgentNames) = 5
    /\ Cardinality(Running) = 3
    /\ \E a, b \in AgentNames :
          /\ unit[a].st = "returned"
          /\ unit[b].st = "queued"

\* C18: when every external call eventually answers, every row whose units
\* were submitted is eventually returned and the report is eventually
\* written with one row per input row (or the guard stopped the run),
\* whichever units fail; while a call of a unit has not answered the row is
\* not returned and no later row is begun; and the row is returned only when
\* every unit has finished.
C18_Terminates ==
    /\ <>(\/ pc = "exit"
          \/ pc = "done" /\ written = final_rows /\ Len(written) = Len(df))
    /\ (pc = "submit") ~> (pc = "sleep")
    /\ [](Running # {} =>
              /\ pc \in {"submit", "as_completed"}
              /\ Len(final_rows) = index)
    /\ [][pc' = "sleep" /\ pc # "sleep" => Finished = AgentNames]_vars

\* The report is written after a last row on which one unit let an
\* exception escape, one failed in its forced call and one judged
\* successfully.
C18_Witness ==
    /\ pc = "done"
    /\ written = final_rows
    /\ Len(written) >= 1
    /\ \E a, b, c \in AgentNames :
          /\ unit[a].st = "raised"
          /\ unit[b].st = "returned" /\ unit[b].forced.kind = "raise"
          /\ unit[c].st = "returned" /\ unit[c].followup = "ok"

\* The arguments of the function call the model answered the forced call of
\* a with.
CallArgs(a) == unit[a].forced.parts[1].function_call.args

\* C19: the content handed to run_judgment_llm is the text_content argument
\* of the function call when the call has one, and the Answer of the row
\* when the call has no argument or no text_content; the criterion name and
\* description handed over are those of the configuration of the agent.
C19_ContentPassed ==
    \A a \in AgentNames :
        unit[a].request # PyNone =>
            /\ DictGet(unit[a].request, "criteria_name", PyNone) = Text(a)
            /\ \E i \in 1..Len(active_agents) :
                  /\ active_agents[i].name = a
                  /\ DictGet(unit[a].request, "criteria_desc", PyNone) = Text(active_agents[i].desc)
            /\ \A i \in 1..Len(CallArgs(a).v) :
                  CallArgs(a).v[i][1] = "text_content" =>
                      DictGet(unit[a].request, "content", PyNone) = CallArgs(a).v[i][2]
            /\ (\A i \in 1..Len(CallArgs(a).v) : CallArgs(a).v[i][1] # "text_content") =>
                  DictGet(unit[a].request, "content", PyNone) = row_dict["Answer"]

\* The model called the tool with a text_content that differs from the
\* Answer of the row, and run_judgment_llm was handed that text.
C19_Witness ==
    \E a \in AgentNames :
        /\ unit[a].request # PyNone
        /\ HasKey(CallArgs(a), "text_content")
        /\ DictGet(unit[a].request, "content", PyNone) = Text("The sun is cold.")
        /\ row_dict["Answer"] # Text("The sun is cold.")

\* C20: when sm_answers.csv is missing or cannot be read, no row is
\* processed: no unit is submitted, no row is produced and none is written.
C20_HaltsWithoutInput ==
    file \in {"missing", "unreadable"} =>
        /\ \A a \in AgentNames : unit[a].st = "none"
        /\ final_rows = <<>>
        /\ written = <<>>
        /\ pc \notin {"submit", "as_completed", "sleep"}
====
